---- MODULE Spec2Model ----
(***************************************************************************)
(* IC Engine Performance Estimator (src/app.py): one Streamlit script run  *)
(* per input change.  The script reads the sidebar widgets, calls          *)
(* calculate_engine_performance once, renders the result cards, then       *)
(* builds the efficiency chart and the power chart.                        *)
(*                                                                         *)
(* Numbers.  The script computes in floating point.  Here every value is   *)
(* an exact rational [neg, n, d] whose numerator and denominator are       *)
(* arbitrary-precision naturals (little-endian limb sequences, base        *)
(* Base), math.pi is the rational 3.141592653589793, the power             *)
(* r ** (gamma - 1) is the rational floor(PowScale * r^(p/q)) / PowScale   *)
(* and np.exp is a fixed-point Taylor sum at scale ExpScale.  Rounding of  *)
(* the individual floating-point operations is not modelled.               *)
(***************************************************************************)
EXTENDS Integers, Sequences, FiniteSets, TLC

----------------------------------------------------------------------------
(* Arbitrary-precision naturals: <<>> is 0, the last limb is never 0.      *)

Base == 10^4

RECURSIVE BStrip(_)
BStrip(a) ==
    IF a = <<>> THEN a
    ELSE IF a[Len(a)] = 0 THEN BStrip(SubSeq(a, 1, Len(a) - 1)) ELSE a

RECURSIVE BFromInt(_)
BFromInt(k) == IF k = 0 THEN <<>> ELSE <<k % Base>> \o BFromInt(k \div Base)

RECURSIVE BAddC(_, _, _)
BAddC(a, b, c) ==
    IF a = <<>> /\ b = <<>> THEN BFromInt(c)
    ELSE LET x == IF a = <<>> THEN 0 ELSE a[1]
             y == IF b = <<>> THEN 0 ELSE b[1]
             t == x + y + c
         IN  <<t % Base>> \o BAddC(IF a = <<>> THEN a ELSE Tail(a),
                                   IF b = <<>> THEN b ELSE Tail(b),
                                   t \div Base)

BAdd(a, b) == BAddC(a, b, 0)

RECURSIVE BSubC(_, _, _)
BSubC(a, b, c) ==
    IF a = <<>> THEN <<>>
    ELSE LET y == IF b = <<>> THEN 0 ELSE b[1]
             t == a[1] - y - c
         IN  <<IF t < 0 THEN t + Base ELSE t>>
                 \o BSubC(Tail(a), IF b = <<>> THEN b ELSE Tail(b),
                          IF t < 0 THEN 1 ELSE 0)

\* a - b for a >= b
BSub(a, b) == BStrip(BSubC(a, b, 0))

RECURSIVE BCmpAt(_, _, _)
BCmpAt(a, b, i) ==
    IF i = 0 THEN 0
    ELSE IF a[i] < b[i] THEN -1
    ELSE IF a[i] > b[i] THEN 1
    ELSE BCmpAt(a, b, i - 1)

\* -1, 0, 1 as a < b, a = b, a > b
BCmp(a, b) ==
    IF Len(a) < Len(b) THEN -1
    ELSE IF Len(a) > Len(b) THEN 1
    ELSE BCmpAt(a, b, Len(a))

RECURSIVE BMulSmallC(_, _, _)
BMulSmallC(a, m, c) ==
    IF a = <<>> THEN BFromInt(c)
    ELSE LET t == a[1] * m + c
         IN  <<t % Base>> \o BMulSmallC(Tail(a), m, t \div Base)

\* a * m for a machine integer 0 <= m <= 200000
BMulSmall(a, m) == IF m = 0 THEN <<>> ELSE BMulSmallC(a, m, 0)

RECURSIVE BMul(_, _)
BMul(a, b) ==
    IF a = <<>> \/ b = <<>> THEN <<>>
    ELSE LET r == BMul(a, Tail(b))
         IN  BAdd(BMulSmall(a, b[1]), IF r = <<>> THEN r ELSE <<0>> \o r)

RECURSIVE BPowSmall(_, _)
BPowSmall(m, e) == IF e = 0 THEN <<1>> ELSE BMulSmall(BPowSmall(m, e - 1), m)

----------------------------------------------------------------------------
(* Exact signed rationals over the naturals above; d is never 0.           *)

Q(num, den) == [neg |-> FALSE, n |-> BFromInt(num), d |-> BFromInt(den)]
QInt(k) == Q(k, 1)

QIsZero(x) == x.n = <<>>

QMul(x, y) ==
    LET num == BMul(x.n, y.n)
    IN  [neg |-> (num # <<>>) /\ (x.neg # y.neg), n |-> num, d |-> BMul(x.d, y.d)]

\* x / y for y # 0
QDiv(x, y) ==
    LET num == BMul(x.n, y.d)
    IN  [neg |-> (num # <<>>) /\ (x.neg # y.neg), n |-> num, d |-> BMul(x.d, y.n)]

\* -1, 0, 1 as x < y, x = y, x > y
QCmp(x, y) ==
    LET l == BMul(x.n, y.d)
        r == BMul(y.n, x.d)
    IN  IF x.neg /\ ~y.neg THEN -1
        ELSE IF ~x.neg /\ y.neg THEN 1
        ELSE IF x.neg THEN BCmp(r, l) ELSE BCmp(l, r)

QEq(x, y) == QCmp(x, y) = 0
QLt(x, y) == QCmp(x, y) = -1

QSub(x, y) ==
    LET l == BMul(x.n, y.d)
        r == BMul(y.n, x.d)
        den == BMul(x.d, y.d)
    IN  IF x.neg # y.neg
        THEN [neg |-> x.neg, n |-> BAdd(l, r), d |-> den]
        ELSE IF BCmp(l, r) = 0 THEN [neg |-> FALSE, n |-> <<>>, d |-> den]
        ELSE IF BCmp(l, r) = 1 THEN [neg |-> x.neg, n |-> BSub(l, r), d |-> den]
        ELSE [neg |-> ~x.neg, n |-> BSub(r, l), d |-> den]

----------------------------------------------------------------------------
(* Sidebar widgets, lines 80-105: min_value, value (default), max_value.   *)
(* imep, compression_ratio and fuel_consumption are held in tenths.        *)

BoreMin == 10
BoreDefault == 80
BoreMax == 1000
StrokeMin == 10
StrokeDefault == 90
StrokeMax == 500
CylindersMin == 1
CylindersDefault == 4
CylindersMax == 12
CompressionRatioMin10 == 60
CompressionRatioDefault10 == 95
CompressionRatioMax10 == 200
RpmMin == 0
RpmDefault == 3000
RpmMax == 8000
ImepMin10 == 10
ImepDefault10 == 80
ImepMax10 == 300
TorqueMin == 10
TorqueDefault == 150
TorqueMax == 1000
CalorificValueMin == 30000
CalorificValueMax == 50000
CalorificValuePetrol == 44000
CalorificValueDiesel == 42000
FuelConsumptionMin10 == 1
FuelConsumptionDefault10 == 50
FuelConsumptionMax10 == 1000

EngineTypes == {"4-Stroke", "2-Stroke"}
FuelTypes == {"Petrol", "Diesel"}

default_cv(fuel_type) ==
    IF fuel_type = "Petrol" THEN CalorificValuePetrol ELSE CalorificValueDiesel

\* Number of input changes (script reruns) followed in one session.
MaxChanges == 2

\* The values each widget is given: the ends of its range, its default,
\* and for rpm an odd value as well.
WidgetValues ==
    [bore |-> {BoreMin, BoreDefault, BoreMax},
     stroke |-> {StrokeMin, StrokeDefault, StrokeMax},
     num_cylinders |-> {CylindersMin, CylindersDefault, CylindersMax},
     engine_type |-> EngineTypes,
     compression_ratio |->
         {CompressionRatioMin10, CompressionRatioDefault10, CompressionRatioMax10},
     rpm |-> {RpmMin, RpmDefault, RpmMax - 1, RpmMax},
     imep |-> {ImepMin10, ImepDefault10, ImepMax10},
     torque |-> {TorqueMin, TorqueDefault, TorqueMax},
     calorific_value |->
         {CalorificValueMin, CalorificValuePetrol, CalorificValueDiesel,
          CalorificValueMax},
     fuel_consumption |->
         {FuelConsumptionMin10, FuelConsumptionDefault10, FuelConsumptionMax10}]

Widgets == DOMAIN WidgetValues

DefaultInputs ==
    [bore |-> BoreDefault, stroke |-> StrokeDefault,
     num_cylinders |-> CylindersDefault, engine_type |-> "4-Stroke",
     compression_ratio |-> CompressionRatioDefault10, rpm |-> RpmDefault,
     imep |-> ImepDefault10, torque |-> TorqueDefault, fuel_type |-> "Petrol",
     calorific_value |-> default_cv("Petrol"),
     fuel_consumption |-> FuelConsumptionDefault10]

----------------------------------------------------------------------------
(* calculate_engine_performance, lines 108-177.  a is the record of its    *)
(* arguments (fuel_type is not one of them and is never read).             *)

\* math.pi, the double 3.141592653589793
PI == [neg |-> FALSE, n |-> <<9793, 5358, 5926, 3141>>, d |-> <<0, 0, 0, 1000>>]

bore_m(a) == QDiv(QInt(a.bore), QInt(1000))
stroke_m(a) == QDiv(QInt(a.stroke), QInt(1000))

swept_volume_per_cylinder(a) ==
    QMul(QMul(QDiv(PI, QInt(4)), QMul(bore_m(a), bore_m(a))), stroke_m(a))

\* faulty variant: the cylinder count is left out of the total
total_swept_volume_one_cylinder(a) ==
    QMul(swept_volume_per_cylinder(a), QInt(10^6))

total_swept_volume(a) ==
    QMul(QMul(swept_volume_per_cylinder(a), QInt(a.num_cylinders)), QInt(10^6))

\* (2 * math.pi * rpm * torque) / (60 * 1000), for rational rpm and torque
brake_power_of(rpm, torque) ==
    QDiv(QMul(QMul(QMul(QInt(2), PI), rpm), torque), QInt(60 * 1000))

brake_power(a) == brake_power_of(QInt(a.rpm), QInt(a.torque))

imep_pa(a) == QMul(Q(a.imep, 10), QInt(10^5))

piston_area(a) == QMul(QDiv(PI, QInt(4)), QMul(bore_m(a), bore_m(a)))

\* faulty variant: rpm // 2, an integer division
working_strokes_floor(a) ==
    IF a.engine_type = "2-Stroke" THEN QInt(a.rpm) ELSE QInt(a.rpm \div 2)

\* working strokes per minute: rpm for "2-Stroke", rpm / 2 otherwise
working_strokes(a) ==
    IF a.engine_type = "2-Stroke" THEN QInt(a.rpm) ELSE Q(a.rpm, 2)

indicated_power(a) ==
    QDiv(QDiv(QMul(QMul(QMul(QMul(imep_pa(a), stroke_m(a)), piston_area(a)),
                        working_strokes(a)),
                   QInt(a.num_cylinders)),
              QInt(60)),
         QInt(1000))

\* faulty variant: friction power clamped at zero
friction_power_clamped(a) ==
    IF QLt(indicated_power(a), brake_power(a))
    THEN QInt(0)
    ELSE QSub(indicated_power(a), brake_power(a))

friction_power(a) == QSub(indicated_power(a), brake_power(a))

\* faulty variant: the fuel energy rate scaled by the compression ratio
fuel_power_with_ratio(a) ==
    QMul(QMul(QDiv(Q(a.fuel_consumption, 10), QInt(3600)), QInt(a.calorific_value)),
         Q(a.compression_ratio, 10))

fuel_power(a) ==
    QMul(QDiv(Q(a.fuel_consumption, 10), QInt(3600)), QInt(a.calorific_value))

fuel_grams(a) == QMul(Q(a.fuel_consumption, 10), QInt(1000))

\* The first division, in program order, whose denominator is zero:
\* Python raises ZeroDivisionError there and the function returns nothing.
FirstZeroDivision(a) ==
    IF QIsZero(indicated_power(a)) THEN "mechanical_efficiency"
    ELSE IF QIsZero(fuel_power(a)) THEN "brake_thermal_efficiency"
    ELSE IF QIsZero(brake_power(a)) THEN "bsfc"
    ELSE "none"

PerformanceResult(a) ==
    [swept_volume |-> total_swept_volume(a),
     indicated_power |-> indicated_power(a),
     brake_power |-> brake_power(a),
     friction_power |-> friction_power(a),
     mechanical_efficiency |->
         QMul(QDiv(brake_power(a), indicated_power(a)), QInt(100)),
     brake_thermal_efficiency |->
         QMul(QDiv(brake_power(a), fuel_power(a)), QInt(100)),
     indicated_thermal_efficiency |->
         QMul(QDiv(indicated_power(a), fuel_power(a)), QInt(100)),
     bsfc |-> QDiv(fuel_grams(a), brake_power(a)),
     isfc |-> QDiv(fuel_grams(a), indicated_power(a)),
     torque |-> QInt(a.torque),
     imep |-> Q(a.imep, 10)]

calculate_engine_performance(a) ==
    IF FirstZeroDivision(a) # "none"
    THEN [ok |-> FALSE, error |-> "ZeroDivisionError", at |-> FirstZeroDivision(a)]
    ELSE [ok |-> TRUE, result |-> PerformanceResult(a)]

\* The arguments the script passes at lines 180-183.
CallArgs(i) ==
    [bore |-> i.bore, stroke |-> i.stroke, num_cylinders |-> i.num_cylinders,
     engine_type |-> i.engine_type, compression_ratio |-> i.compression_ratio,
     rpm |-> i.rpm, imep |-> i.imep, torque |-> i.torque,
     calorific_value |-> i.calorific_value,
     fuel_consumption |-> i.fuel_consumption]

----------------------------------------------------------------------------
(* numpy helpers used by the two charts.                                   *)

RECURSIVE Gcd(_, _)
Gcd(x, y) == IF y = 0 THEN x ELSE Gcd(y, x % y)

\* np.linspace(start, stop, num)[k - 1] as a reduced fraction of integers
Linspace(start, stop, num, k) ==
    LET top == start * (num - 1) + (k - 1) * (stop - start)
        g == Gcd(top, num - 1)
    IN  [n |-> top \div g, d |-> (num - 1) \div g]

FracQ(f) == Q(f.n, f.d)

\* Resolution of the modelled power function and exponential.
PowScale == 1000
ExpScale == 1000000
ExpTerms == 12

RECURSIVE RootSearch(_, _, _, _, _)
\* the largest x in lo .. hi-1 with x^q * lhs <= rhs, given it holds at lo
RootSearch(lo, hi, q, lhs, rhs) ==
    IF hi - lo <= 1 THEN lo
    ELSE LET mid == (lo + hi) \div 2
         IN  IF BCmp(BMul(BPowSmall(mid, q), lhs), rhs) <= 0
             THEN RootSearch(mid, hi, q, lhs, rhs)
             ELSE RootSearch(lo, mid, q, lhs, rhs)

\* (rn/rd) ** (p/q) for rn/rd >= 1 and 0 < p <= q, rounded down to a
\* multiple of 1/PowScale
Power(rn, rd, p, q) ==
    Q(RootSearch(0, PowScale * (rn \div rd + 1) + 1, q,
                 BPowSmall(rd, p),
                 BMul(BPowSmall(PowScale, q), BPowSmall(rn, p))),
      PowScale)

RECURSIVE ExpHorner(_, _, _, _)
ExpHorner(xn, xd, k, h) ==
    IF k = 0 THEN h
    ELSE ExpHorner(xn, xd, k - 1, ExpScale - (xn * h) \div (xd * k))

\* np.exp(-(xn/xd)) for 0 <= xn/xd: the Taylor sum of ExpTerms terms in
\* fixed point
ExpNeg(xn, xd) ==
    LET g == Gcd(xn, xd)
    IN  Q(ExpHorner(xn \div g, xd \div g, ExpTerms, ExpScale), ExpScale)

----------------------------------------------------------------------------
(* Efficiency chart, lines 263-315.                                        *)

CrLow == 6
CrHigh == 20
CrPoints == 50
GammaPetrol100 == 140
GammaDiesel100 == 135

cr_range == [k \in 1..CrPoints |-> Linspace(CrLow, CrHigh, CrPoints, k)]

gamma(fuel_type) == IF fuel_type = "Petrol" THEN GammaPetrol100 ELSE GammaDiesel100

\* faulty variant: the "1 -" is dropped
OttoEfficiency_inverse(rn, rd, gamma100) ==
    LET g == Gcd(gamma100 - 100, 100)
        pw == Power(rn, rd, (gamma100 - 100) \div g, 100 \div g)
    IN  QMul(QDiv(QInt(1), pw), QInt(100))

\* (1 - (1 / (r ** (gamma - 1)))) * 100 for r = rn/rd
OttoEfficiency(rn, rd, gamma100) ==
    LET g == Gcd(gamma100 - 100, 100)
        pw == Power(rn, rd, (gamma100 - 100) \div g, 100 \div g)
    IN  QMul(QSub(QInt(1), QDiv(QInt(1), pw)), QInt(100))

TheoreticalPetrol ==
    [k \in 1..CrPoints |->
        OttoEfficiency(cr_range[k].n, cr_range[k].d, GammaPetrol100)]

TheoreticalDiesel ==
    [k \in 1..CrPoints |->
        QMul(OttoEfficiency(cr_range[k].n, cr_range[k].d, GammaDiesel100),
             Q(9, 10))]

theoretical_efficiency(fuel_type) ==
    IF fuel_type = "Petrol" THEN TheoreticalPetrol ELSE TheoreticalDiesel

practical_efficiency(theoretical) ==
    [k \in DOMAIN theoretical |-> QMul(theoretical[k], Q(6, 10))]

current_theoretical(fuel_type, compression_ratio) ==
    LET t == OttoEfficiency(compression_ratio, 10, gamma(fuel_type))
    IN  IF fuel_type = "Diesel" THEN QMul(t, Q(9, 10)) ELSE t

current_practical(fuel_type, compression_ratio) ==
    QMul(current_theoretical(fuel_type, compression_ratio), Q(6, 10))

\* faulty variant: the marker is put on the theoretical curve
eff_marker_theoretical(i, res) ==
    [x |-> Q(i.compression_ratio, 10),
     y |-> current_theoretical(i.fuel_type, i.compression_ratio)]

\* the 'Current Operating Point' trace of fig_eff
eff_marker(i, res) ==
    [x |-> Q(i.compression_ratio, 10), y |-> res.brake_thermal_efficiency]

efficiency_chart(i, res) ==
    [x |-> cr_range,
     theoretical |-> theoretical_efficiency(i.fuel_type),
     practical |-> practical_efficiency(theoretical_efficiency(i.fuel_type)),
     current_theoretical |-> current_theoretical(i.fuel_type, i.compression_ratio),
     current_practical |-> current_practical(i.fuel_type, i.compression_ratio),
     marker |-> eff_marker(i, res)]

----------------------------------------------------------------------------
(* Power chart, lines 317-381.                                             *)

RpmLow == 1000
RpmHigh == 6000
RpmPoints == 50
peak_rpm == 3000
DecayNum == 5
DecayDen == 10000

rpm_range == [k \in 1..RpmPoints |-> Linspace(RpmLow, RpmHigh, RpmPoints, k)]

\* np.exp(-0.0005 * (r - peak_rpm)) for r = rn/rd > peak_rpm
decay_factor(rn, rd) == ExpNeg(DecayNum * (rn - peak_rpm * rd), DecayDen * rd)

\* one pass of the loop at lines 330-338, r = rn/rd
torque_at(rn, rd, max_torque) ==
    IF rn <= peak_rpm * rd
    THEN QMul(max_torque, QDiv(Q(rn, rd), QInt(peak_rpm)))
    ELSE QMul(max_torque, decay_factor(rn, rd))

torque_curve(max_torque) ==
    [k \in 1..RpmPoints |-> torque_at(rpm_range[k].n, rpm_range[k].d, max_torque)]

\* faulty variant: the shortcut P = N * T / 9549
power_curve_9549(torques) ==
    [k \in DOMAIN torques |->
        QDiv(QMul(FracQ(rpm_range[k]), torques[k]), QInt(9549))]

\* (2 * np.pi * rpm_range * torque_curve) / 60000
power_curve(torques) ==
    [k \in DOMAIN torques |->
        QDiv(QMul(QMul(QMul(QInt(2), PI), FracQ(rpm_range[k])), torques[k]),
             QInt(60000))]

\* the 'Current Operating Point' trace of fig_power
power_marker(i, res) == [x |-> QInt(i.rpm), y |-> res.brake_power]

power_chart_of(i, res) ==
    [x |-> rpm_range,
     torque |-> torque_curve(res.torque),
     power |-> power_curve(torque_curve(res.torque)),
     marker |-> power_marker(i, res)]

----------------------------------------------------------------------------
(* The script run.  Optional values are <<>> (absent) or <<v>>.            *)

VARIABLES
    inputs,       \* the widget values the run reads (lines 80-105)
    pc,           \* where the run is
    results,      \* the dict returned at line 180
    error,        \* the exception that ended the run
    cards,        \* the nine result cards (lines 185-255)
    fig_eff,      \* the efficiency chart (lines 263-315)
    fig_power,    \* the power chart (lines 317-381)
    info,         \* the two info boxes (lines 383-406)
    calc_calls,   \* calls of calculate_engine_performance in this run
    eff_gens,     \* efficiency curves generated in this run
    power_gens,   \* power curves generated in this run
    changes       \* input changes so far in the session

vars == <<inputs, pc, results, error, cards, fig_eff, fig_power, info,
          calc_calls, eff_gens, power_gens, changes>>

CardFields ==
    {"swept_volume", "brake_power", "brake_thermal_efficiency",
     "indicated_power", "friction_power", "bsfc", "mechanical_efficiency",
     "torque", "isfc"}

StartRun ==
    /\ pc' = "calc"
    /\ results' = <<>>
    /\ error' = <<>>
    /\ cards' = <<>>
    /\ fig_eff' = <<>>
    /\ fig_power' = <<>>
    /\ info' = <<>>
    /\ calc_calls' = 0
    /\ eff_gens' = 0
    /\ power_gens' = 0

Init ==
    /\ inputs = DefaultInputs
    /\ pc = "calc"
    /\ results = <<>>
    /\ error = <<>>
    /\ cards = <<>>
    /\ fig_eff = <<>>
    /\ fig_power = <<>>
    /\ info = <<>>
    /\ calc_calls = 0
    /\ eff_gens = 0
    /\ power_gens = 0
    /\ changes = 0

\* The user edits one number or the engine-type widget: Streamlit reruns
\* the script from the top with the new value.
ChangeInput ==
    /\ pc \in {"done", "failed"}
    /\ changes < MaxChanges
    /\ \E w \in Widgets : \E v \in WidgetValues[w] :
          /\ v # inputs[w]
          /\ inputs' = [inputs EXCEPT ![w] = v]
    /\ changes' = changes + 1
    /\ StartRun

\* The user picks the other fuel: default_cv changes (line 103), and with
\* it the calorific-value widget, which restarts from its new default.
ChangeFuelType ==
    /\ pc \in {"done", "failed"}
    /\ changes < MaxChanges
    /\ \E f \in FuelTypes :
          /\ f # inputs.fuel_type
          /\ inputs' = [inputs EXCEPT !.fuel_type = f,
                                      !.calorific_value = default_cv(f)]
    /\ changes' = changes + 1
    /\ StartRun

\* faulty variant: the exception is swallowed and the run goes on
Calculate_swallow ==
    /\ pc = "calc"
    /\ calc_calls' = calc_calls + 1
    /\ LET out == calculate_engine_performance(CallArgs(inputs))
       IN  /\ results' = IF out.ok THEN <<out.result>> ELSE <<>>
           /\ error' = error
           /\ pc' = "cards"
    /\ UNCHANGED <<inputs, cards, fig_eff, fig_power, info, eff_gens,
                   power_gens, changes>>

\* lines 180-183
Calculate ==
    /\ pc = "calc"
    /\ calc_calls' = calc_calls + 1
    /\ LET out == calculate_engine_performance(CallArgs(inputs))
       IN  \/ /\ out.ok
              /\ results' = <<out.result>>
              /\ error' = error
              /\ pc' = "cards"
           \/ /\ ~out.ok
              /\ results' = results
              /\ error' = <<[kind |-> out.error, at |-> out.at]>>
              /\ pc' = "failed"
    /\ UNCHANGED <<inputs, cards, fig_eff, fig_power, info, eff_gens,
                   power_gens, changes>>

\* lines 185-255
RenderCards ==
    /\ pc = "cards"
    /\ cards' = <<[f \in CardFields |-> results[1][f]]>>
    /\ pc' = "eff_chart"
    /\ UNCHANGED <<inputs, results, error, fig_eff, fig_power, info,
                   calc_calls, eff_gens, power_gens, changes>>

\* lines 263-315
EfficiencyChart ==
    /\ pc = "eff_chart"
    /\ fig_eff' = <<efficiency_chart(inputs, results[1])>>
    /\ eff_gens' = eff_gens + 1
    /\ pc' = "power_chart"
    /\ UNCHANGED <<inputs, results, error, cards, fig_power, info,
                   calc_calls, power_gens, changes>>

\* lines 317-381
PowerChart ==
    /\ pc = "power_chart"
    /\ fig_power' = <<power_chart_of(inputs, results[1])>>
    /\ power_gens' = power_gens + 1
    /\ pc' = "info"
    /\ UNCHANGED <<inputs, results, error, cards, fig_eff, info,
                   calc_calls, eff_gens, changes>>

\* lines 383-406
RenderInfo ==
    /\ pc = "info"
    /\ info' = <<[engine_type |-> inputs.engine_type,
                  num_cylinders |-> inputs.num_cylinders,
                  bore |-> inputs.bore, stroke |-> inputs.stroke,
                  displacement |-> results[1].swept_volume,
                  compression_ratio |-> inputs.compression_ratio,
                  rpm |-> inputs.rpm, fuel_type |-> inputs.fuel_type,
                  imep |-> results[1].imep,
                  fuel_consumption |-> inputs.fuel_consumption,
                  calorific_value |-> inputs.calorific_value]>>
    /\ pc' = "done"
    /\ UNCHANGED <<inputs, results, error, cards, fig_eff, fig_power,
                   calc_calls, eff_gens, power_gens, changes>>

Next ==
    \/ ChangeInput
    \/ ChangeFuelType
    \/ Calculate
    \/ RenderCards
    \/ EfficiencyChart
    \/ PowerChart
    \/ RenderInfo

Spec == Init /\ [][Next]_vars

----------------------------------------------------------------------------
(* calculate_engine_performance on its own: one call with arguments that   *)
(* may also lie outside the widget ranges (a zero in any position).        *)

InitCalc ==
    /\ inputs \in
         [bore : {0, BoreDefault}, stroke : {0, StrokeDefault},
          num_cylinders : {0, CylindersDefault}, engine_type : EngineTypes,
          compression_ratio : {CompressionRatioDefault10},
          rpm : {0, RpmDefault}, imep : {0, ImepDefault10},
          torque : {0, TorqueDefault}, fuel_type : {"Petrol"},
          calorific_value : {0, CalorificValuePetrol},
          fuel_consumption : {0, FuelConsumptionDefault10}]
    /\ pc = "calc"
    /\ results = <<>>
    /\ error = <<>>
    /\ cards = <<>>
    /\ fig_eff = <<>>
    /\ fig_power = <<>>
    /\ info = <<>>
    /\ calc_calls = 0
    /\ eff_gens = 0
    /\ power_gens = 0
    /\ changes = 0

NextCalc == Calculate

SpecCalc == InitCalc /\ [][NextCalc]_vars

----------------------------------------------------------------------------
(* Properties.                                                             *)

Args == CallArgs(inputs)
Called == pc # "calc"
Returned == results # <<>>
\* the call at line 180 has just returned or raised
JustCalled == pc \in {"cards", "failed"}

\* lo/den < x < hi/den
Between(x, lo, hi, den) == QLt(Q(lo, den), x) /\ QLt(x, Q(hi, den))

Positive(x) == ~x.neg /\ ~QIsZero(x)

\* a value with a zero denominator stands for infinity or NaN
Finite(x) == x.d # <<>>

ZeroDenominator(a) ==
    \/ QIsZero(indicated_power(a))
    \/ QIsZero(brake_power(a))
    \/ QIsZero(fuel_power(a))

InRange(i) ==
    /\ i.bore \in BoreMin..BoreMax
    /\ i.stroke \in StrokeMin..StrokeMax
    /\ i.num_cylinders \in CylindersMin..CylindersMax
    /\ i.rpm \in RpmMin..RpmMax
    /\ i.imep \in ImepMin10..ImepMax10
    /\ i.torque \in TorqueMin..TorqueMax
    /\ i.calorific_value \in CalorificValueMin..CalorificValueMax
    /\ i.fuel_consumption \in FuelConsumptionMin10..FuelConsumptionMax10
    /\ i.engine_type \in EngineTypes

\* What the code does where C1 applies: whenever indicated_power,
\* brake_power or fuel_power is zero at a division, the call ends in
\* Python's ZeroDivisionError and returns no result; a returned result has
\* no zero denominator behind it and holds no infinity or NaN.
CodeRaisesZeroDivisionError ==
    Called =>
        /\ ZeroDenominator(Args) =>
              /\ results = <<>>
              /\ error # <<>>
              /\ error[1].kind = "ZeroDivisionError"
        /\ Returned =>
              /\ ~ZeroDenominator(Args)
              /\ error = <<>>
              /\ \A f \in DOMAIN results[1] : Finite(results[1][f])

\* C1: whenever indicated_power, brake_power or fuel_power is zero at a
\* division, the call raises a DomainError of kind InvalidDenominator and
\* returns no result.
C1_RaisesInvalidDenominator ==
    (Called /\ ZeroDenominator(Args)) =>
        /\ results = <<>>
        /\ error # <<>>
        /\ error[1].kind = "InvalidDenominator"

\* torque = 0 alone: brake_power is the only zero, the bsfc division raises
C1_Witness ==
    /\ Called
    /\ inputs.torque = 0
    /\ ~QIsZero(indicated_power(Args))
    /\ ~QIsZero(fuel_power(Args))
    /\ results = <<>>
    /\ error = <<[kind |-> "ZeroDivisionError", at |-> "bsfc"]>>

\* C2: for inputs inside the widget ranges the three
\* denominators indicated_power, brake_power and fuel_power are strictly
\* positive, so the call divides by no zero and returns.
C2_DenominatorsPositiveInRange ==
    InRange(inputs) =>
        /\ Positive(indicated_power(Args))
        /\ Positive(brake_power(Args))
        /\ Positive(fuel_power(Args))
        /\ Called => Returned

\* C3: the returned friction_power is indicated_power - brake_power,
\* unclamped: negative exactly when brake_power > indicated_power, as at
\* the default inputs (brake_power 47.12 kW, indicated_power 36.2 kW).
C3_FrictionIsDifference ==
    Returned =>
        LET r == results[1]
        IN  /\ QEq(r.friction_power, QSub(r.indicated_power, r.brake_power))
            /\ r.friction_power.neg <=> QLt(r.indicated_power, r.brake_power)
            /\ inputs = DefaultInputs =>
                  /\ r.friction_power.neg
                  /\ Between(r.brake_power, 4712, 4713, 100)
                  /\ Between(r.indicated_power, 361, 363, 10)

C3_Witness ==
    /\ Returned
    /\ inputs = DefaultInputs
    /\ results[1].friction_power.neg
    /\ QLt(results[1].indicated_power, results[1].brake_power)

\* C9: in every run calculate_engine_performance is called exactly once
\* and before either curve; each curve is generated exactly once; cards
\* and curves exist only in a run where the call returned, and a failed
\* call leaves all of them unproduced.
C9_RunOrder ==
    /\ calc_calls = (IF pc = "calc" THEN 0 ELSE 1)
    /\ eff_gens = (IF pc \in {"power_chart", "info", "done"} THEN 1 ELSE 0)
    /\ power_gens = (IF pc \in {"info", "done"} THEN 1 ELSE 0)
    /\ (fig_eff # <<>>) <=> (eff_gens = 1)
    /\ (fig_power # <<>>) <=> (power_gens = 1)
    /\ (cards # <<>> \/ fig_eff # <<>> \/ fig_power # <<>>) =>
          (calc_calls = 1 /\ Returned)
    /\ pc \in {"cards", "eff_chart", "power_chart", "info", "done"} => Returned
    /\ pc = "failed" =>
          /\ error # <<>>
          /\ results = <<>>
          /\ cards = <<>>
          /\ fig_eff = <<>>
          /\ fig_power = <<>>

\* a run started by an input change whose calculation failed
C9_Witness ==
    /\ changes > 0
    /\ pc = "failed"
    /\ calc_calls = 1
    /\ eff_gens = 0
    /\ power_gens = 0

\* C4: for the same bore, stroke, cylinders, imep and rpm (odd rpm too)
\* the two-stroke indicated_power is exactly twice the four-stroke one,
\* and every engine_type other than "2-Stroke" counts as four-stroke.
C4_TwoStrokeDoubles ==
    JustCalled =>
    LET two == indicated_power([Args EXCEPT !.engine_type = "2-Stroke"])
        four == indicated_power([Args EXCEPT !.engine_type = "4-Stroke"])
    IN  /\ QEq(two, QMul(QInt(2), four))
        /\ \A t \in {"Wankel", "2-stroke", ""} :
              QEq(indicated_power([Args EXCEPT !.engine_type = t]), four)
        /\ Returned =>
              QEq(results[1].indicated_power,
                  IF inputs.engine_type = "2-Stroke" THEN two ELSE four)

\* a two-stroke result at an odd rpm
C4_Witness ==
    /\ Returned
    /\ inputs.engine_type = "2-Stroke"
    /\ inputs.rpm % 2 = 1
    /\ Positive(results[1].indicated_power)

\* C5 (on the chart as PowerChart leaves it): torque(3000) is peak_torque
\* exactly, on the ramp and on the decay branch alike; torque(6000) <
\* torque(3000); and at every sampled rpm the power is
\* (2*pi*r*torque(r))/60000, the brake_power formula.
C5_PowerCurve ==
    (pc = "info" /\ fig_power # <<>>) =>
        LET c == fig_power[1]
            peak == results[1].torque
        IN  /\ QEq(torque_at(peak_rpm, 1, peak), peak)
            /\ QEq(QMul(peak, decay_factor(peak_rpm, 1)), peak)
            /\ c.x[RpmPoints] = [n |-> RpmHigh, d |-> 1]
            /\ QLt(c.torque[RpmPoints], torque_at(peak_rpm, 1, peak))
            /\ DOMAIN c.power = 1..RpmPoints
            /\ \A k \in 1..RpmPoints :
                  QEq(c.power[k], brake_power_of(FracQ(c.x[k]), c.torque[k]))

\* a chart drawn for a peak torque other than the default
C5_Witness ==
    /\ fig_power # <<>>
    /\ inputs.torque = TorqueMax
    /\ Positive(fig_power[1].power[RpmPoints])

\* C6 (on the chart as EfficiencyChart leaves it): the 50 compression
\* ratios are evenly spaced on [6, 20], ends included; for Petrol and for
\* Diesel the theoretical and the practical series rise strictly from each
\* sample to the next; and practical is 0.6 x theoretical at every sample.
C6_EfficiencyCurve ==
    (pc = "power_chart" /\ fig_eff # <<>>) =>
        LET c == fig_eff[1]
        IN  /\ DOMAIN c.x = 1..CrPoints
            /\ c.x[1] = [n |-> CrLow, d |-> 1]
            /\ c.x[CrPoints] = [n |-> CrHigh, d |-> 1]
            /\ \A k \in 1..(CrPoints - 1) :
                  /\ QEq(QSub(FracQ(c.x[k + 1]), FracQ(c.x[k])),
                         Q(CrHigh - CrLow, CrPoints - 1))
                  /\ QLt(c.theoretical[k], c.theoretical[k + 1])
                  /\ QLt(c.practical[k], c.practical[k + 1])
            /\ \A k \in 1..CrPoints :
                  QEq(QMul(c.practical[k], QInt(10)),
                      QMul(c.theoretical[k], QInt(6)))

C6_Witness ==
    /\ fig_eff # <<>>
    /\ inputs.fuel_type = "Diesel"
    /\ Positive(fig_eff[1].practical[1])

\* C7: swept_volume rises strictly with each of bore, stroke and
\* num_cylinders, the other two fixed, and depends on no other input.
C7_SweptVolume ==
    JustCalled =>
    LET sv == total_swept_volume(Args)
    IN  /\ Returned => QEq(results[1].swept_volume, sv)
        /\ \A b \in BoreMin..BoreMax :
              (b = inputs.bore + 1 \/ b \in WidgetValues.bore) /\ b > inputs.bore
                  => QLt(sv, total_swept_volume([Args EXCEPT !.bore = b]))
        /\ \A t \in StrokeMin..StrokeMax :
              (t = inputs.stroke + 1 \/ t \in WidgetValues.stroke)
                  /\ t > inputs.stroke
                  => QLt(sv, total_swept_volume([Args EXCEPT !.stroke = t]))
        /\ \A c \in CylindersMin..CylindersMax :
              c > inputs.num_cylinders
                  => QLt(sv, total_swept_volume([Args EXCEPT !.num_cylinders = c]))
        /\ \A w \in Widgets \ {"bore", "stroke", "num_cylinders"} :
              \A v \in WidgetValues[w] :
                  total_swept_volume([Args EXCEPT ![w] = v]) = sv

C7_Witness ==
    /\ Returned
    /\ inputs.bore = BoreMin
    /\ inputs.num_cylinders = CylindersMax
    /\ Between(results[1].swept_volume, 84, 85, 1)

\* C8: the marker of the efficiency chart is (compression_ratio,
\* brake_thermal_efficiency) whatever the theoretical and practical curve
\* values at that ratio are, and the marker of the power chart is (rpm,
\* brake_power), also for an rpm outside [1000, 6000].
C8_Markers ==
    /\ fig_eff # <<>> =>
          fig_eff[1].marker =
              [x |-> Q(inputs.compression_ratio, 10),
               y |-> results[1].brake_thermal_efficiency]
    /\ fig_power # <<>> =>
          fig_power[1].marker =
              [x |-> QInt(inputs.rpm), y |-> results[1].brake_power]

\* both charts drawn at an rpm above the curve's domain, the computed
\* efficiency differing from both curve values at the ratio
C8_Witness ==
    /\ fig_eff # <<>>
    /\ fig_power # <<>>
    /\ inputs.rpm > RpmHigh
    /\ ~QEq(fig_eff[1].marker.y, fig_eff[1].current_theoretical)
    /\ ~QEq(fig_eff[1].marker.y, fig_eff[1].current_practical)

\* C10: two calls that differ only in compression_ratio fail alike or
\* return the same 11 fields.
C10_CompressionRatioIgnored ==
    JustCalled =>
    \A cr \in WidgetValues.compression_ratio \ {inputs.compression_ratio} :
           LET out == calculate_engine_performance(
                          [Args EXCEPT !.compression_ratio = cr])
           IN  /\ out = calculate_engine_performance(Args)
               /\ out.ok <=> Returned
               /\ Returned =>
                     /\ out.result = results[1]
                     /\ Cardinality(DOMAIN results[1]) = 11

C10_Witness ==
    /\ Returned
    /\ inputs.compression_ratio = CompressionRatioMax10
    /\ results[1] =
          calculate_engine_performance(
              [Args EXCEPT !.compression_ratio = CompressionRatioMin10]).result

====
